---------------------------- MODULE Spec2Model ----------------------------
(***************************************************************************)
(* Model of src/main.py: the Kakapo chatbot HTTP service (Flask).  Every   *)
(* route handler is one action.  A request carries its body and the        *)
(* replies the external collaborators (the Gemini client, the image codec) *)
(* give during that request; the handler is computed as the code computes  *)
(* it, try/except included.  Text is a sequence of one-character strings,  *)
(* so that strip(), lower() and the substring tests are computed.          *)
(***************************************************************************)
EXTENDS Integers, Sequences, FiniteSets

VARIABLES
  API_KEY,    \* bool(API_KEY): whether GEMINI_API_KEY was set at import time
  req,        \* the request handled last (endpoint, body, collaborators' replies)
  resp,       \* the response to it: [status, body]
  trace,      \* the steps the handler took for it, in order
  attempts,   \* the model identifiers get_model tried for it, in order
  caught,     \* the exception the handler's except clause caught for it, if any
  model,      \* the handle get_model returned last ("none" before, and when it raised)
  ref         \* an earlier request of this process and its response

vars == <<API_KEY, req, resp, trace, attempts, caught, model, ref>>

---------------------------------------------------------------------------
(* Text literals of src/main.py *)
\* GEMINI_API_KEY not set
KEY_NOT_SET ==
  << "G","E","M","I","N","I","_","A","P","I","_","K","E","Y"," ","n","o","t"," ","s","e",
     "t" >>
\* GEMINI_API_KEY not configured
KEY_NOT_CONFIGURED ==
  << "G","E","M","I","N","I","_","A","P","I","_","K","E","Y"," ","n","o","t"," ","c","o",
     "n","f","i","g","u","r","e","d" >>
\* No question provided
NO_QUESTION ==
  << "N","o"," ","q","u","e","s","t","i","o","n"," ","p","r","o","v","i","d","e","d" >>
\* No image provided
NO_IMAGE ==
  << "N","o"," ","i","m","a","g","e"," ","p","r","o","v","i","d","e","d" >>
\* No available Gemini models found. Please check your API key and quota.
NO_MODELS_FOUND ==
  << "N","o"," ","a","v","a","i","l","a","b","l","e"," ","G","e","m","i","n","i"," ","m",
     "o","d","e","l","s"," ","f","o","u","n","d","."," ","P","l","e","a","s","e"," ","c",
     "h","e","c","k"," ","y","o","u","r"," ","A","P","I"," ","k","e","y"," ","a","n","d",
     " ","q","u","o","t","a","." >>
\* API key not configured. Please contact administrator.
WEBHOOK_NO_KEY ==
  << "A","P","I"," ","k","e","y"," ","n","o","t"," ","c","o","n","f","i","g","u","r","e",
     "d","."," ","P","l","e","a","s","e"," ","c","o","n","t","a","c","t"," ","a","d","m",
     "i","n","i","s","t","r","a","t","o","r","." >>
\* No query received.
WEBHOOK_NO_QUERY ==
  << "N","o"," ","q","u","e","r","y"," ","r","e","c","e","i","v","e","d","." >>
\* I'm having trouble connecting to my AI service. Please try again in a moment.
MSG_CONNECTION ==
  << "I","'","m"," ","h","a","v","i","n","g"," ","t","r","o","u","b","l","e"," ","c","o",
     "n","n","e","c","t","i","n","g"," ","t","o"," ","m","y"," ","A","I"," ","s","e","r",
     "v","i","c","e","."," ","P","l","e","a","s","e"," ","t","r","y"," ","a","g","a","i",
     "n"," ","i","n"," ","a"," ","m","o","m","e","n","t","." >>
\* I've reached my usage limit. Please try again later.
MSG_USAGE_LIMIT ==
  << "I","'","v","e"," ","r","e","a","c","h","e","d"," ","m","y"," ","u","s","a","g","e",
     " ","l","i","m","i","t","."," ","P","l","e","a","s","e"," ","t","r","y"," ","a","g",
     "a","i","n"," ","l","a","t","e","r","." >>
\* There's a configuration issue. Please contact the administrator.
MSG_CONFIGURATION ==
  << "T","h","e","r","e","'","s"," ","a"," ","c","o","n","f","i","g","u","r","a","t","i",
     "o","n"," ","i","s","s","u","e","."," ","P","l","e","a","s","e"," ","c","o","n","t",
     "a","c","t"," ","t","h","e"," ","a","d","m","i","n","i","s","t","r","a","t","o","r",
     "." >>
\* I encountered an error while processing your request. Please try again.
MSG_GENERIC ==
  << "I"," ","e","n","c","o","u","n","t","e","r","e","d"," ","a","n"," ","e","r","r","o",
     "r"," ","w","h","i","l","e"," ","p","r","o","c","e","s","s","i","n","g"," ","y","o",
     "u","r"," ","r","e","q","u","e","s","t","."," ","P","l","e","a","s","e"," ","t","r",
     "y"," ","a","g","a","i","n","." >>
\* kakapo-chatbot
SOURCE ==
  << "k","a","k","a","p","o","-","c","h","a","t","b","o","t" >>
\* Is this a kakapo?
DEFAULT_IMAGE_QUESTION ==
  << "I","s"," ","t","h","i","s"," ","a"," ","k","a","k","a","p","o","?" >>
\* 404
SUB_404 ==
  << "4","0","4" >>
\* not found
SUB_NOT_FOUND ==
  << "n","o","t"," ","f","o","u","n","d" >>
\* quota
SUB_QUOTA ==
  << "q","u","o","t","a" >>
\* api key
SUB_API_KEY ==
  << "a","p","i"," ","k","e","y" >>
---------------------------------------------------------------------------
(* Texts of the exceptions the Python runtime and the libraries raise *)

\* 400 Bad Request: The browser (or proxy) sent a request that this server could not understand.
ERR_BAD_REQUEST ==
  << "4","0","0"," ","B","a","d"," ","R","e","q","u","e","s","t",":"," ","T","h","e"," ",
     "b","r","o","w","s","e","r"," ","(","o","r"," ","p","r","o","x","y",")"," ","s","e",
     "n","t"," ","a"," ","r","e","q","u","e","s","t"," ","t","h","a","t"," ","t","h","i",
     "s"," ","s","e","r","v","e","r"," ","c","o","u","l","d"," ","n","o","t"," ","u","n",
     "d","e","r","s","t","a","n","d","." >>
\* 'NoneType' object has no attribute 'get'
ERR_NONE_GET ==
  << "'","N","o","n","e","T","y","p","e","'"," ","o","b","j","e","c","t"," ","h","a","s",
     " ","n","o"," ","a","t","t","r","i","b","u","t","e"," ","'","g","e","t","'" >>
\* 'list' object has no attribute 'get'
ERR_LIST_GET ==
  << "'","l","i","s","t","'"," ","o","b","j","e","c","t"," ","h","a","s"," ","n","o"," ",
     "a","t","t","r","i","b","u","t","e"," ","'","g","e","t","'" >>
\* 'str' object has no attribute 'get'
ERR_STR_GET ==
  << "'","s","t","r","'"," ","o","b","j","e","c","t"," ","h","a","s"," ","n","o"," ","a",
     "t","t","r","i","b","u","t","e"," ","'","g","e","t","'" >>
\* 'NoneType' object has no attribute 'strip'
ERR_NONE_STRIP ==
  << "'","N","o","n","e","T","y","p","e","'"," ","o","b","j","e","c","t"," ","h","a","s",
     " ","n","o"," ","a","t","t","r","i","b","u","t","e"," ","'","s","t","r","i","p","'" >>
\* 'int' object has no attribute 'strip'
ERR_INT_STRIP ==
  << "'","i","n","t","'"," ","o","b","j","e","c","t"," ","h","a","s"," ","n","o"," ","a",
     "t","t","r","i","b","u","t","e"," ","'","s","t","r","i","p","'" >>
\* can only concatenate str (not "int") to str
ERR_CONCAT_INT ==
  << "c","a","n"," ","o","n","l","y"," ","c","o","n","c","a","t","e","n","a","t","e"," ",
     "s","t","r"," ","(","n","o","t"," ","\"","i","n","t","\"",")"," ","t","o"," ","s",
     "t","r" >>
\* Incorrect padding
ERR_B64_PADDING ==
  << "I","n","c","o","r","r","e","c","t"," ","p","a","d","d","i","n","g" >>
\* Invalid base64-encoded string: number of data characters cannot be 1 more than a
\* multiple of 4 (the count the message shows in brackets is left out)
ERR_B64_ONE_CHAR ==
  << "I","n","v","a","l","i","d"," ","b","a","s","e","6","4","-","e","n","c","o","d","e",
     "d"," ","s","t","r","i","n","g",":"," ","n","u","m","b","e","r"," ","o","f"," ","d",
     "a","t","a"," ","c","h","a","r","a","c","t","e","r","s"," ","c","a","n","n","o","t",
     " ","b","e"," ","1"," ","m","o","r","e"," ","t","h","a","n"," ","a"," ","m","u","l",
     "t","i","p","l","e"," ","o","f"," ","4" >>
\* argument should be a bytes-like object or ASCII string, not 'int'
ERR_B64_TYPE ==
  << "a","r","g","u","m","e","n","t"," ","s","h","o","u","l","d"," ","b","e"," ","a"," ",
     "b","y","t","e","s","-","l","i","k","e"," ","o","b","j","e","c","t"," ","o","r"," ",
     "A","S","C","I","I"," ","s","t","r","i","n","g",","," ","n","o","t"," ","'","i","n",
     "t","'" >>
\* (-215:Assertion failed) !buf.empty() in function 'imdecode_'
ERR_IMDECODE_EMPTY ==
  << "(","-","2","1","5",":","A","s","s","e","r","t","i","o","n"," ","f","a","i","l","e",
     "d",")"," ","!","b","u","f",".","e","m","p","t","y","(",")"," ","i","n"," ","f","u",
     "n","c","t","i","o","n"," ","'","i","m","d","e","c","o","d","e","_","'" >>
---------------------------------------------------------------------------
(* Replies of the Gemini backend: error texts and answers *)

\* 404 models/gemini-1.5-flash is not found for API version v1beta
BE_404_NOT_FOUND ==
  << "4","0","4"," ","m","o","d","e","l","s","/","g","e","m","i","n","i","-","1",".","5",
     "-","f","l","a","s","h"," ","i","s"," ","n","o","t"," ","f","o","u","n","d"," ","f",
     "o","r"," ","A","P","I"," ","v","e","r","s","i","o","n"," ","v","1","b","e","t","a" >>
\* Model Not Found
BE_NOT_FOUND_CAP ==
  << "M","o","d","e","l"," ","N","o","t"," ","F","o","u","n","d" >>
\* 429 Quota exceeded for quota metric
BE_QUOTA ==
  << "4","2","9"," ","Q","u","o","t","a"," ","e","x","c","e","e","d","e","d"," ","f","o",
     "r"," ","q","u","o","t","a"," ","m","e","t","r","i","c" >>
\* Quota exceeded (see error 404)
BE_QUOTA_404 ==
  << "Q","u","o","t","a"," ","e","x","c","e","e","d","e","d"," ","(","s","e","e"," ","e",
     "r","r","o","r"," ","4","0","4",")" >>
\* API key not valid. Please pass a valid API key.
BE_API_KEY ==
  << "A","P","I"," ","k","e","y"," ","n","o","t"," ","v","a","l","i","d","."," ","P","l",
     "e","a","s","e"," ","p","a","s","s"," ","a"," ","v","a","l","i","d"," ","A","P","I",
     " ","k","e","y","." >>
\* API Key has no quota left
BE_API_KEY_QUOTA ==
  << "A","P","I"," ","K","e","y"," ","h","a","s"," ","n","o"," ","q","u","o","t","a"," ",
     "l","e","f","t" >>
\* 500 An internal error has occurred
BE_INTERNAL ==
  << "5","0","0"," ","A","n"," ","i","n","t","e","r","n","a","l"," ","e","r","r","o","r",
     " ","h","a","s"," ","o","c","c","u","r","r","e","d" >>
\* The response.text quick accessor only works when the response contains a valid Part
BE_BLOCKED ==
  << "T","h","e"," ","r","e","s","p","o","n","s","e",".","t","e","x","t"," ","q","u","i",
     "c","k"," ","a","c","c","e","s","s","o","r"," ","o","n","l","y"," ","w","o","r","k",
     "s"," ","w","h","e","n"," ","t","h","e"," ","r","e","s","p","o","n","s","e"," ","c",
     "o","n","t","a","i","n","s"," ","a"," ","v","a","l","i","d"," ","P","a","r","t" >>
\* Kakapo are nocturnal.
ANSWER_1 ==
  << "K","a","k","a","p","o"," ","a","r","e"," ","n","o","c","t","u","r","n","a","l","." >>
\* I'm sorry, I only have knowledge about kakapo.
ANSWER_2 ==
  << "I","'","m"," ","s","o","r","r","y",","," ","I"," ","o","n","l","y"," ","h","a","v",
     "e"," ","k","n","o","w","l","e","d","g","e"," ","a","b","o","u","t"," ","k","a","k",
     "a","p","o","." >>
---------------------------------------------------------------------------
(* Further texts: the codec's size assertion, /health, /, /list-models *)

\* (-215:Assertion failed) pixels <= CV_IO_MAX_IMAGE_PIXELS in function 'validateInputImageSize'
ERR_IMDECODE_SIZE ==
  << "(","-","2","1","5",":","A","s","s","e","r","t","i","o","n"," ","f","a","i","l","e",
     "d",")"," ","p","i","x","e","l","s"," ","<","="," ","C","V","_","I","O","_","M","A",
     "X","_","I","M","A","G","E","_","P","I","X","E","L","S"," ","i","n"," ","f","u","n",
     "c","t","i","o","n"," ","'","v","a","l","i","d","a","t","e","I","n","p","u","t","I",
     "m","a","g","e","S","i","z","e","'" >>
\* Not checked
NOT_CHECKED ==
  << "N","o","t"," ","c","h","e","c","k","e","d" >>
\* API accessible
API_ACCESSIBLE ==
  << "A","P","I"," ","a","c","c","e","s","s","i","b","l","e" >>
\* API error: 
API_ERROR_PREFIX ==
  << "A","P","I"," ","e","r","r","o","r",":"," " >>
\* healthy
HEALTHY ==
  << "h","e","a","l","t","h","y" >>
\* warning
WARNING ==
  << "w","a","r","n","i","n","g" >>
\* running
RUNNING ==
  << "r","u","n","n","i","n","g" >>
\* Kakapo Expert Chatbot API
SERVICE_NAME ==
  << "K","a","k","a","p","o"," ","E","x","p","e","r","t"," ","C","h","a","t","b","o","t",
     " ","A","P","I" >>
\* generateContent
GENERATE_CONTENT ==
  << "g","e","n","e","r","a","t","e","C","o","n","t","e","n","t" >>
\* embedContent
EMBED_CONTENT ==
  << "e","m","b","e","d","C","o","n","t","e","n","t" >>
---------------------------------------------------------------------------
(* Bounds *)

\* the largest edge count the codec reports
MaxEdges == 3

\* str(e)[:100] of health_check
ErrorPrefixLen == 100

---------------------------------------------------------------------------
(* Python string operations *)

Whitespace == {" ", "\t", "\n", "\r", "\f"}

UpperCase ==
  << "A","B","C","D","E","F","G","H","I","J","K","L","M",
     "N","O","P","Q","R","S","T","U","V","W","X","Y","Z" >>

LowerCase ==
  << "a","b","c","d","e","f","g","h","i","j","k","l","m",
     "n","o","p","q","r","s","t","u","v","w","x","y","z" >>

LowerChar(c) ==
  IF \E i \in 1..Len(UpperCase) : UpperCase[i] = c
    THEN LowerCase[CHOOSE i \in 1..Len(UpperCase) : UpperCase[i] = c]
    ELSE c

\* str.lower()
lower(s) == [i \in 1..Len(s) |-> LowerChar(s[i])]

\* `sub in s`
Contains(sub, s) ==
  \E i \in 1..(Len(s) - Len(sub) + 1) : SubSeq(s, i, i + Len(sub) - 1) = sub

RECURSIVE lstrip(_)
lstrip(s) == IF s # <<>> /\ Head(s) \in Whitespace THEN lstrip(Tail(s)) ELSE s

RECURSIVE rstrip(_)
rstrip(s) ==
  IF s # <<>> /\ s[Len(s)] \in Whitespace
    THEN rstrip(SubSeq(s, 1, Len(s) - 1))
    ELSE s

\* str.strip()
strip(s) == rstrip(lstrip(s))

---------------------------------------------------------------------------
(* JSON values as the handlers see them *)

Absent == [t |-> "absent", s |-> <<>>, n |-> 0]   \* the key is not in the object
JNull == [t |-> "null", s |-> <<>>, n |-> 0]      \* None
JStr(s) == [t |-> "str", s |-> s, n |-> 0]
JInt(n) == [t |-> "int", s |-> <<>>, n |-> n]

\* truthiness taken for `is not None`
TruthyNotNone(v) == v.t # "null"

\* Python truthiness: `not v` is ~Truthy(v)
Truthy(v) ==
  CASE v.t = "str" -> v.s # <<>>
    [] v.t = "int" -> v.n # 0
    [] OTHER -> FALSE

\* dict.get(key, default): the default only when the key is absent
dict_get(v, default) == IF v.t = "absent" THEN default ELSE v

\* A value or a raised exception
Ok(v) == [ok |-> TRUE, val |-> v, err |-> <<>>]
Err(e) == [ok |-> FALSE, val |-> Absent, err |-> e]

\* request.get_json(): an unparsable body raises BadRequest
get_json(body) ==
  IF body.kind = "unparsable" THEN Err(ERR_BAD_REQUEST) ELSE Ok(body)

\* data.get(key, default) on what get_json returned: None and a list have no .get
data_get(data, key, default) ==
  CASE data.kind = "null" -> Err(ERR_NONE_GET)
    [] data.kind = "list" -> Err(ERR_LIST_GET)
    [] OTHER -> Ok(dict_get(data[key], default))
---------------------------------------------------------------------------
(* The Gemini client: what it replies during one request *)

ModelNames == {"gemini-2.0-flash", "gemini-1.5-flash", "gemini-1.5-flash-latest"}

NoModel == "none"

\* prefer_vision selects one of two literal lists
models_to_try(prefer_vision) ==
  IF prefer_vision
    THEN << "gemini-2.0-flash", "gemini-1.5-flash", "gemini-1.5-flash-latest" >>
    ELSE << "gemini-2.0-flash", "gemini-1.5-flash", "gemini-1.5-flash-latest" >>

\* TryModels without the return in the loop: every name is tried, the last
\* one that could be instantiated is returned
RECURSIVE TryModelsNoReturn(_, _, _, _)
TryModelsNoReturn(names, i, avail, tried) ==
  IF i > Len(names)
    THEN IF \E k \in 1..Len(tried) : avail[tried[k]]
           THEN [ok |-> TRUE,
                 model |-> tried[CHOOSE k \in 1..Len(tried) :
                                   /\ avail[tried[k]]
                                   /\ \A j \in (k + 1)..Len(tried) : ~avail[tried[j]]],
                 attempts |-> tried, err |-> <<>>]
           ELSE [ok |-> FALSE, model |-> NoModel, attempts |-> tried,
                 err |-> NO_MODELS_FOUND]
    ELSE TryModelsNoReturn(names, i + 1, avail, Append(tried, names[i]))

\* the for loop: avail[name] is whether genai.GenerativeModel(name) returns
RECURSIVE TryModels(_, _, _, _)
TryModels(names, i, avail, tried) ==
  IF i > Len(names)
    THEN [ok |-> FALSE, model |-> NoModel, attempts |-> tried, err |-> NO_MODELS_FOUND]
    ELSE IF avail[names[i]]
      THEN [ok |-> TRUE, model |-> names[i], attempts |-> Append(tried, names[i]),
            err |-> <<>>]
      ELSE TryModels(names, i + 1, avail, Append(tried, names[i]))

\* get_model that keeps the handle of an earlier request
get_model_cached(prefer_vision, avail) ==
  IF model # NoModel
    THEN [ok |-> TRUE, model |-> model, attempts |-> <<>>, err |-> <<>>]
    ELSE TryModels(models_to_try(prefer_vision), 1, avail, <<>>)

get_model(prefer_vision, avail) ==
  TryModels(models_to_try(prefer_vision), 1, avail, <<>>)

\* get_model was not called
NoCall == [ok |-> FALSE, model |-> NoModel, attempts |-> <<>>, err |-> <<>>]

\* model.generate_content(...) and response.text: a text, an exception raised by
\* the call, or a response whose .text raises (no valid part)
generate_content(gen) ==
  IF gen.kind = "raise" THEN Err(gen.text) ELSE Ok(gen)

response_text(response) ==
  IF response.kind = "blocked" THEN Err(response.text) ELSE Ok(response.text)

---------------------------------------------------------------------------
(* What a handler's try block yields: a response, or an exception *)

Return(status, body, steps, gm) ==
  [raised |-> FALSE, err |-> <<>>, status |-> status, body |-> body,
   trace |-> steps, attempts |-> gm.attempts, model |-> gm.model]

\* status 0: no response, the exception leaves the handler
Raise(err, steps, gm) ==
  [raised |-> TRUE, err |-> err, status |-> 0, body |-> [none |-> TRUE],
   trace |-> steps, attempts |-> gm.attempts, model |-> gm.model]

\* an except clause answers for the exception r
Caught(status, body, r) == [r EXCEPT !.status = status, !.body = body]

\* key_missing that never reports a missing key
key_never_missing(key) == FALSE

\* `if not API_KEY`
key_missing(key) == ~key

\* str_strip without the strip: a str is returned as it is
str_strip_unstripped(v) ==
  CASE v.t = "str" -> Ok(JStr(v.s))
    [] v.t = "null" -> Err(ERR_NONE_STRIP)
    [] OTHER -> Err(ERR_INT_STRIP)

\* str(v).strip() of line 102: only a str has .strip
str_strip(v) ==
  CASE v.t = "str" -> Ok(JStr(strip(v.s)))
    [] v.t = "null" -> Err(ERR_NONE_STRIP)
    [] OTHER -> Err(ERR_INT_STRIP)

\* prefix + v of lines 108, 137, 186: only a str concatenates to a str
concat(v) == IF v.t = "str" THEN Ok(v) ELSE Err(ERR_CONCAT_INT)

---------------------------------------------------------------------------
(* POST /ask *)

AskTry(key, body, be) ==
  IF key_missing(key)
    THEN Return(500, [error |-> KEY_NOT_CONFIGURED], <<"api_key_check">>, NoCall)
  ELSE LET data == get_json(body) IN
  IF ~data.ok
    THEN Raise(data.err, <<"api_key_check", "get_json">>, NoCall)
  ELSE LET got == data_get(data.val, "question", JStr(<<>>)) IN
  IF ~got.ok
    THEN Raise(got.err, <<"api_key_check", "get_json">>, NoCall)
  ELSE LET question == str_strip(got.val) IN
  IF ~question.ok
    THEN Raise(question.err, <<"api_key_check", "get_json">>, NoCall)
  ELSE IF ~Truthy(question.val)
    THEN Return(400, [error |-> NO_QUESTION],
                <<"api_key_check", "get_json", "input_check">>, NoCall)
  ELSE LET gm == get_model(FALSE, be.avail)
           s1 == <<"api_key_check", "get_json", "input_check", "get_model">> IN
  IF ~gm.ok
    THEN Raise(gm.err, s1, gm)
  ELSE LET response == generate_content(be.gen)
           s2 == Append(s1, "generate_content") IN
  IF ~response.ok
    THEN Raise(response.err, s2, gm)
  ELSE LET text == response_text(response.val) IN
  IF ~text.ok
    THEN Raise(text.err, s2, gm)
  ELSE Return(200, [answer |-> text.val], s2, gm)

\* ask_gemini whose except clause forgets the status
ask_gemini_status_200(key, body, be) ==
  LET r == AskTry(key, body, be) IN
  IF r.raised THEN Caught(200, [error |-> r.err], r) ELSE r

\* except Exception as e: return jsonify({"error": str(e)}), 500
ask_gemini(key, body, be) ==
  LET r == AskTry(key, body, be) IN
  IF r.raised THEN Caught(500, [error |-> r.err], r) ELSE r
---------------------------------------------------------------------------
(* base64.b64decode (binascii.a2b_base64, not strict) *)

B64Alphabet ==
  << "A","B","C","D","E","F","G","H","I","J","K","L","M","N","O","P",
     "Q","R","S","T","U","V","W","X","Y","Z","a","b","c","d","e","f",
     "g","h","i","j","k","l","m","n","o","p","q","r","s","t","u","v",
     "w","x","y","z","0","1","2","3","4","5","6","7","8","9","+","/" >>

\* table_a2b_base64: the 6-bit value of a character, 64 when it is not in the alphabet
B64Value(c) ==
  IF \E i \in 1..Len(B64Alphabet) : B64Alphabet[i] = c
    THEN (CHOOSE i \in 1..Len(B64Alphabet) : B64Alphabet[i] = c) - 1
    ELSE 64

RECURSIVE a2b_base64(_, _, _, _, _, _)
a2b_base64(s, i, quad_pos, leftchar, pads, out) ==
  IF i > Len(s)
    THEN IF quad_pos = 0 THEN Ok(out)
         ELSE IF quad_pos = 1 THEN Err(ERR_B64_ONE_CHAR)
         ELSE Err(ERR_B64_PADDING)
  ELSE IF s[i] = "="
    THEN IF quad_pos >= 2 /\ quad_pos + pads + 1 >= 4
           THEN Ok(out)
           ELSE a2b_base64(s, i + 1, quad_pos, leftchar,
                           IF quad_pos >= 2 THEN pads + 1 ELSE pads, out)
  ELSE LET v == B64Value(s[i]) IN
    IF v >= 64
      THEN a2b_base64(s, i + 1, quad_pos, leftchar, pads, out)
    ELSE CASE quad_pos = 0 -> a2b_base64(s, i + 1, 1, v, 0, out)
           [] quad_pos = 1 ->
                a2b_base64(s, i + 1, 2, v % 16, 0,
                           Append(out, (leftchar * 4 + v \div 16) % 256))
           [] quad_pos = 2 ->
                a2b_base64(s, i + 1, 3, v % 4, 0,
                           Append(out, (leftchar * 16 + v \div 4) % 256))
           [] OTHER ->
                a2b_base64(s, i + 1, 0, 0, 0,
                           Append(out, (leftchar * 64 + v) % 256))

\* base64.b64decode(img_b64): bytes, or binascii.Error / TypeError
b64decode(v) ==
  IF v.t = "str" THEN a2b_base64(v.s, 1, 0, 0, 0, <<>>) ELSE Err(ERR_B64_TYPE)

---------------------------------------------------------------------------
(* The image codec: cv2.imdecode and cv2.Canny *)

NoImage == [kind |-> "none", edges |-> 0, shape |-> <<>>]

\* cv2.imdecode(np.frombuffer(img_bytes)): an image, None, or cv2.error
\* (an assertion of the codec: an empty buffer, a size over the codec's limit)
imdecode(img_bytes, dec) ==
  IF dec.kind = "raise"
    THEN Err(IF img_bytes = <<>> THEN ERR_IMDECODE_EMPTY ELSE ERR_IMDECODE_SIZE)
    ELSE Ok(dec)

JsonNull == [null |-> TRUE]

\* lines 143-151: edge_count = int(np.sum(cv2.Canny(img, 100, 200) > 0))
opencv_analysis(img) ==
  IF img.kind = "none"
    THEN JsonNull
    ELSE [edges_detected |-> img.edges, image_shape |-> img.shape]

---------------------------------------------------------------------------
(* POST /analyze-image *)

AnalyzeTry(key, body, be) ==
  IF key_missing(key)
    THEN Return(500, [error |-> KEY_NOT_CONFIGURED], <<"api_key_check">>, NoCall)
  ELSE LET data == get_json(body)
           s0 == <<"api_key_check", "get_json">> IN
  IF ~data.ok
    THEN Raise(data.err, s0, NoCall)
  ELSE LET img_b64 == data_get(data.val, "image", JStr(<<>>)) IN
  IF ~img_b64.ok
    THEN Raise(img_b64.err, s0, NoCall)
  ELSE LET question == dict_get(data.val.question, JStr(DEFAULT_IMAGE_QUESTION)) IN
  IF ~Truthy(img_b64.val)
    THEN Return(400, [error |-> NO_IMAGE], Append(s0, "input_check"), NoCall)
  ELSE LET img_bytes == b64decode(img_b64.val)
           s1 == s0 \o <<"input_check", "b64decode">> IN
  IF ~img_bytes.ok
    THEN Raise(img_bytes.err, s1, NoCall)
  ELSE LET gm == get_model(TRUE, be.avail)
           s2 == Append(s1, "get_model") IN
  IF ~gm.ok
    THEN Raise(gm.err, s2, gm)
  ELSE LET prompt == concat(question) IN
  IF ~prompt.ok
    THEN Raise(prompt.err, s2, gm)
  ELSE LET response == generate_content(be.gen)
           s3 == Append(s2, "generate_content") IN
  IF ~response.ok
    THEN Raise(response.err, s3, gm)
  ELSE LET img == imdecode(img_bytes.val, be.dec)
           s4 == Append(s3, "imdecode") IN
  IF ~img.ok
    THEN Raise(img.err, s4, gm)
  ELSE LET text == response_text(response.val) IN
  IF ~text.ok
    THEN Raise(text.err, s4, gm)
  ELSE Return(200,
              [answer |-> text.val, opencv_analysis |-> opencv_analysis(img.val)],
              s4, gm)

\* except Exception as e: return jsonify({"error": str(e)}), 500
analyze_image(key, body, be) ==
  LET r == AnalyzeTry(key, body, be) IN
  IF r.raised THEN Caught(500, [error |-> r.err], r) ELSE r

---------------------------------------------------------------------------
(* POST /webhook *)

Fulfillment(text) == [fulfillmentText |-> text, source |-> SOURCE]

\* req.get("queryResult", {}).get("queryText", ""): only an object has .get
query_text(data) ==
  LET result == data_get(data, "queryResult", [t |-> "obj", s |-> <<>>, n |-> 0]) IN
  IF ~result.ok THEN result
  ELSE CASE result.val.t = "null" -> Err(ERR_NONE_GET)
         [] result.val.t = "str" -> Err(ERR_STR_GET)
         [] data.queryResult.t = "absent" -> Ok(JStr(<<>>))
         [] OTHER -> Ok(dict_get(data.queryText, JStr(<<>>)))

WebhookTry(key, body, be) ==
  IF key_missing(key)
    THEN Return(200, Fulfillment(WEBHOOK_NO_KEY), <<"api_key_check">>, NoCall)
  ELSE LET data == get_json(body)
           s0 == <<"api_key_check", "get_json">> IN
  IF ~data.ok
    THEN Raise(data.err, s0, NoCall)
  ELSE LET query == query_text(data.val) IN
  IF ~query.ok
    THEN Raise(query.err, s0, NoCall)
  ELSE IF ~Truthy(query.val)
    THEN Return(200, Fulfillment(WEBHOOK_NO_QUERY), Append(s0, "input_check"), NoCall)
  ELSE LET gm == get_model(FALSE, be.avail)
           s1 == s0 \o <<"input_check", "get_model">> IN
  IF ~gm.ok
    THEN Raise(gm.err, s1, gm)
  ELSE LET full_prompt == concat(query.val) IN
  IF ~full_prompt.ok
    THEN Raise(full_prompt.err, s1, gm)
  ELSE LET response == generate_content(be.gen)
           s2 == Append(s1, "generate_content") IN
  IF ~response.ok
    THEN Raise(response.err, s2, gm)
  ELSE LET text == response_text(response.val) IN
  IF ~text.ok
    THEN Raise(text.err, s2, gm)
  ELSE Return(200, Fulfillment(text.val), s2, gm)

\* user_message with the "api key" test before the "quota" test
user_message_api_key_first(error_msg) ==
  IF Contains(SUB_404, error_msg) \/ Contains(SUB_NOT_FOUND, error_msg)
    THEN MSG_CONNECTION
  ELSE IF Contains(SUB_API_KEY, lower(error_msg))
    THEN MSG_CONFIGURATION
  ELSE IF Contains(SUB_QUOTA, lower(error_msg))
    THEN MSG_USAGE_LIMIT
  ELSE MSG_GENERIC

\* lines 203-210: the user-friendly message for str(e)
user_message(error_msg) ==
  IF Contains(SUB_404, error_msg) \/ Contains(SUB_NOT_FOUND, error_msg)
    THEN MSG_CONNECTION
  ELSE IF Contains(SUB_QUOTA, lower(error_msg))
    THEN MSG_USAGE_LIMIT
  ELSE IF Contains(SUB_API_KEY, lower(error_msg))
    THEN MSG_CONFIGURATION
  ELSE MSG_GENERIC

\* webhook whose except clause answers as /ask does
webhook_error_500(key, body, be) ==
  LET r == WebhookTry(key, body, be) IN
  IF r.raised THEN Caught(500, [error |-> r.err], r) ELSE r

webhook(key, body, be) ==
  LET r == WebhookTry(key, body, be) IN
  IF r.raised
    THEN Caught(200, Fulfillment(user_message(r.err)), r)
    ELSE r
---------------------------------------------------------------------------
(* GET /list-models, GET /health, GET / *)

\* lines 83-89: the models whose supported_generation_methods hold generateContent
RECURSIVE generating(_)
generating(listed) ==
  IF listed = <<>> THEN <<>>
  ELSE IF GENERATE_CONTENT \in Head(listed).supported_generation_methods
    THEN << [name |-> Head(listed).name, display_name |-> Head(listed).display_name] >>
           \o generating(Tail(listed))
    ELSE generating(Tail(listed))

ListModelsTry(key, be) ==
  IF key_missing(key)
    THEN Return(500, [error |-> KEY_NOT_SET], <<"api_key_check">>, NoCall)
  ELSE IF be.listing.kind = "raise"
    THEN Raise(be.listing.text, <<"api_key_check", "list_models">>, NoCall)
  ELSE LET models == generating(be.listing.models) IN
    Return(200, [available_models |-> models, count |-> Len(models)],
           <<"api_key_check", "list_models">>, NoCall)

\* except Exception as e: return jsonify({"error": str(e)}), 500
list_models(key, be) ==
  LET r == ListModelsTry(key, be) IN
  IF r.raised THEN Caught(500, [error |-> r.err], r) ELSE r

\* str(e)[:100]
Truncate(s, n) == SubSeq(s, 1, IF Len(s) < n THEN Len(s) ELSE n)

health_check(key, be) ==
  LET api_key_set == ~key_missing(key)
      gm == IF api_key_set THEN get_model(FALSE, be.avail) ELSE NoCall
      steps == IF api_key_set THEN <<"api_key_check", "get_model">>
                              ELSE <<"api_key_check">>
  IN Return(200,
            [status |-> IF api_key_set THEN HEALTHY ELSE WARNING,
             api_key_configured |-> api_key_set,
             api_accessible |-> api_key_set /\ gm.ok,
             model_status |->
               IF ~api_key_set THEN NOT_CHECKED
               ELSE IF gm.ok THEN API_ACCESSIBLE
               ELSE API_ERROR_PREFIX \o Truncate(gm.err, ErrorPrefixLen)],
            steps, gm)

home ==
  Return(200,
         [status |-> RUNNING, service |-> SERVICE_NAME,
          endpoints |-> << "/ask", "/analyze-image", "/webhook", "/list-models" >>],
         <<>>, NoCall)

\* @app.route: the handler of an endpoint
handle(endpoint, key, body, be) ==
  CASE endpoint = "/ask" -> ask_gemini(key, body, be)
    [] endpoint = "/analyze-image" -> analyze_image(key, body, be)
    [] endpoint = "/webhook" -> webhook(key, body, be)
    [] endpoint = "/list-models" -> list_models(key, be)
    [] endpoint = "/health" -> health_check(key, be)
    [] OTHER -> home
---------------------------------------------------------------------------
(* Requests: bodies, and the collaborators' replies to the calls made *)

Questions == { <<>>, <<" ", "\t">>, <<" ", "h", "i", " ">>, <<"h", "i">> }

\* base64 texts: nothing but a space, one character, bad padding, the three
\* bytes FF D8 FF, and one padded byte
Images ==
  { <<>>, <<" ">>, <<"a">>, <<"a", "b", "c">>, <<"/", "9", "j", "/">>,
    <<"Q", "Q", "=", "=">> }

Bodies(kinds, questions, images, results, texts) ==
  [kind : kinds, question : questions, image : images,
   queryResult : results, queryText : texts]

NoBody ==
  [kind |-> "none", question |-> Absent, image |-> Absent,
   queryResult |-> Absent, queryText |-> Absent]

NotObjects ==
  Bodies({"unparsable", "null", "list"}, {Absent}, {Absent}, {Absent}, {Absent})

AskBodies ==
  NotObjects
    \cup Bodies({"object"},
                {Absent, JNull, JInt(5)} \cup {JStr(s) : s \in Questions},
                {Absent}, {Absent}, {Absent})

AnalyzeBodies ==
  NotObjects
    \cup Bodies({"object"},
                {Absent, JInt(5), JStr(<<"h", "i">>)},
                {Absent, JNull, JInt(0), JInt(5)} \cup {JStr(s) : s \in Images},
                {Absent}, {Absent})

WebhookBodies ==
  NotObjects
    \cup Bodies({"object"}, {Absent}, {Absent},
                {Absent, JNull, JStr(<<"h", "i">>)}, {Absent})
    \cup Bodies({"object"}, {Absent}, {Absent}, {[t |-> "obj", s |-> <<>>, n |-> 0]},
                {Absent, JNull, JInt(0), JInt(5), JStr(<<>>), JStr(<<"h", "i">>)})

Avails == [ModelNames -> BOOLEAN]

AllDown == [m \in ModelNames |-> FALSE]

NoGen == [kind |-> "unasked", text |-> <<>>]

GenOutcomes ==
  {[kind |-> "text", text |-> t] : t \in {ANSWER_1, ANSWER_2}}
    \cup {[kind |-> "blocked", text |-> BE_BLOCKED]}
    \cup {[kind |-> "raise", text |-> t] :
            t \in {BE_404_NOT_FOUND, BE_NOT_FOUND_CAP, BE_QUOTA, BE_QUOTA_404,
                   BE_API_KEY, BE_API_KEY_QUOTA, BE_INTERNAL}}

NoDec == [kind |-> "unasked", edges |-> 0, shape |-> <<>>]

\* what the codec can make of the bytes: no image comes out of an empty buffer
Decodings(body) ==
  LET img_bytes == b64decode(body.image) IN
  {NoImage, [kind |-> "raise", edges |-> 0, shape |-> <<>>]}
    \cup IF img_bytes.ok /\ img_bytes.val # <<>>
           THEN {[kind |-> "image", edges |-> 0, shape |-> <<1, 1>>],
                 [kind |-> "image", edges |-> MaxEdges, shape |-> <<2, 2>>]}
           ELSE {}

NoListing == [kind |-> "unasked", text |-> <<>>, models |-> <<>>]

Flash ==
  [name |-> <<"m", "1">>, display_name |-> <<"F">>,
   supported_generation_methods |-> {GENERATE_CONTENT}]

Embedding ==
  [name |-> <<"m", "2">>, display_name |-> <<"E">>,
   supported_generation_methods |-> {EMBED_CONTENT}]

Listings ==
  {[kind |-> "raise", text |-> t, models |-> <<>>] : t \in {BE_API_KEY, BE_INTERNAL}}
    \cup {[kind |-> "list", text |-> <<>>, models |-> l] :
            l \in {<<>>, <<Flash>>, <<Embedding, Flash>>}}

Unasked == [avail |-> AllDown, gen |-> NoGen, dec |-> NoDec, listing |-> NoListing]

NoRequest == [endpoint |-> "none", body |-> NoBody, be |-> Unasked]

Called(steps, step) == \E i \in 1..Len(steps) : steps[i] = step

---------------------------------------------------------------------------
(* The service *)

NoResponse == [status |-> 0, body |-> [none |-> TRUE]]

NoException == [raised |-> FALSE, err |-> <<>>]

Init ==
  /\ API_KEY \in BOOLEAN
  /\ req = NoRequest
  /\ resp = NoResponse
  /\ trace = <<>>
  /\ attempts = <<>>
  /\ caught = NoException
  /\ model = NoModel
  /\ ref = <<>>

\* no request is being handled
Idle == req = NoRequest

\* one request handled: the handler runs to its return
Served(endpoint, body, be) ==
  LET r == handle(endpoint, API_KEY, body, be) IN
  /\ req' = [endpoint |-> endpoint, body |-> body, be |-> be]
  /\ resp' = [status |-> r.status, body |-> r.body]
  /\ trace' = r.trace
  /\ attempts' = r.attempts
  /\ caught' = [raised |-> r.raised, err |-> r.err]
  /\ model' = IF Called(r.trace, "get_model") THEN r.model ELSE model
  /\ UNCHANGED <<API_KEY, ref>>

\* a collaborator replies only to a call the handler makes
Exchange(endpoint, body, avails, gens) ==
  \E avail \in IF Called(handle(endpoint, API_KEY, body, Unasked).trace, "get_model")
                 THEN avails ELSE {AllDown} :
  \E gen \in IF Called(handle(endpoint, API_KEY, body,
                              [Unasked EXCEPT !.avail = avail]).trace,
                       "generate_content")
               THEN gens ELSE {NoGen} :
  \E dec \in IF Called(handle(endpoint, API_KEY, body,
                              [Unasked EXCEPT !.avail = avail, !.gen = gen]).trace,
                       "imdecode")
               THEN Decodings(body) ELSE {NoDec} :
    Served(endpoint, body, [avail |-> avail, gen |-> gen, dec |-> dec,
                            listing |-> NoListing])

Ask ==
  Idle /\ \E body \in AskBodies : Exchange("/ask", body, Avails, GenOutcomes)

AnalyzeImage ==
  Idle /\ \E body \in AnalyzeBodies :
            Exchange("/analyze-image", body, Avails, GenOutcomes)

Webhook ==
  Idle /\ \E body \in WebhookBodies : Exchange("/webhook", body, Avails, GenOutcomes)

ListModels ==
  Idle /\ \E listing \in IF Called(list_models(API_KEY, Unasked).trace, "list_models")
                           THEN Listings ELSE {NoListing} :
            Served("/list-models", NoBody, [Unasked EXCEPT !.listing = listing])

Health == Idle /\ Exchange("/health", NoBody, Avails, GenOutcomes)

Home == Idle /\ Exchange("/", NoBody, Avails, GenOutcomes)

\* the response is sent and the request context is popped: the request, the
\* response and the handler's locals are gone
Teardown ==
  /\ ~Idle
  /\ req' = NoRequest
  /\ resp' = NoResponse
  /\ trace' = <<>>
  /\ attempts' = <<>>
  /\ caught' = NoException
  /\ UNCHANGED <<API_KEY, model, ref>>

Next == Ask \/ AnalyzeImage \/ Webhook \/ ListModels \/ Health \/ Home \/ Teardown

Spec == Init /\ [][Next]_vars

---------------------------------------------------------------------------
(* Two requests of one process: the service over a smaller set of requests, *)
(* with one earlier request and its response kept for comparison            *)

FrameBodies(endpoint) ==
  CASE endpoint = "/ask" ->
         {b \in AskBodies :
            b.kind = "unparsable" \/ b.question \in {JStr(<<>>), JStr(<<"h", "i">>)}}
    [] endpoint = "/analyze-image" ->
         {b \in AnalyzeBodies :
            /\ b.question = Absent
            /\ b.kind = "object"
            /\ b.image \in {Absent, JStr(<<"/", "9", "j", "/">>)}}
    [] endpoint = "/webhook" ->
         {b \in WebhookBodies :
            b.kind = "null" \/ b.queryText \in {JStr(<<>>), JStr(<<"h", "i">>)}}
    [] OTHER -> {NoBody}

FrameAvails ==
  {AllDown, [m \in ModelNames |-> TRUE],
   [m \in ModelNames |-> m = "gemini-1.5-flash-latest"]}

FrameGens ==
  {g \in GenOutcomes : g.text \in {ANSWER_1, ANSWER_2, BE_QUOTA}}

FrameServe ==
  Idle /\ \E endpoint \in {"/ask", "/analyze-image", "/webhook", "/health", "/"} :
            \E body \in FrameBodies(endpoint) :
              Exchange(endpoint, body, FrameAvails, FrameGens)

\* keep the request just handled, its response and the configuration it ran under
Remember ==
  /\ ~Idle
  /\ ref' = << [key |-> API_KEY, req |-> req, resp |-> resp] >>
  /\ UNCHANGED <<API_KEY, req, resp, trace, attempts, caught, model>>

NextFrame == FrameServe \/ ListModels \/ Teardown \/ Remember

SpecFrame == Init /\ [][NextFrame]_vars

---------------------------------------------------------------------------
(* Properties *)

At(endpoint) == ~Idle /\ req.endpoint = endpoint

Count(step) == Cardinality({i \in 1..Len(trace) : trace[i] = step})

Pos(step) == CHOOSE i \in 1..Len(trace) : trace[i] = step

Error(status, text) == [status |-> status, body |-> [error |-> text]]

\* a question that is missing from the object, empty or only whitespace
BlankQuestion(body) ==
  /\ body.kind = "object"
  /\ \/ body.question = Absent
     \/ /\ body.question.t = "str"
        /\ \A i \in 1..Len(body.question.s) : body.question.s[i] \in Whitespace

\* an image that is missing from the object, null or empty
EmptyImage(body) ==
  /\ body.kind = "object"
  /\ body.image \in {Absent, JNull, JStr(<<>>)}

C2_AlwaysServerError ==
  ~API_KEY =>
    /\ (\E e \in {"/ask", "/analyze-image", "/list-models", "/webhook"} : At(e))
         => resp.status = 500
    /\ At("/health") => resp.body.status = WARNING

\* C2, amended: without the API key /ask and /analyze-image answer 500
\* "GEMINI_API_KEY not configured", /list-models answers 500 "GEMINI_API_KEY
\* not set", /webhook answers 200 with the fulfillment text "API key not
\* configured. Please contact administrator.", and /health answers 200 with
\* status "warning"; no exception is raised and no collaborator is called.
C2_MissingKeySurfaced ==
  (~API_KEY /\ ~Idle) =>
    /\ (At("/ask") \/ At("/analyze-image")) => resp = Error(500, KEY_NOT_CONFIGURED)
    /\ At("/list-models") => resp = Error(500, KEY_NOT_SET)
    /\ At("/webhook") => resp = [status |-> 200, body |-> Fulfillment(WEBHOOK_NO_KEY)]
    /\ At("/health") =>
         /\ resp.status = 200
         /\ resp.body.status = WARNING
         /\ ~resp.body.api_key_configured
         /\ ~resp.body.api_accessible
         /\ resp.body.model_status = NOT_CHECKED
    /\ ~caught.raised
    /\ attempts = <<>>
    /\ \A i \in 1..Len(trace) : trace[i] = "api_key_check"

C2_Witness ==
  /\ ~API_KEY
  /\ At("/webhook")
  /\ resp = [status |-> 200, body |-> Fulfillment(WEBHOOK_NO_KEY)]

\* the identifiers of get_model, in the order of the claim
FixedOrder == << "gemini-2.0-flash", "gemini-1.5-flash", "gemini-1.5-flash-latest" >>

\* C3: get_model makes one pass over the fixed list: the identifiers tried are
\* an initial part of the list, each once and in order; every one before the
\* last tried failed; the handle returned is the first identifier that can be
\* instantiated and nothing after it is tried; the terminal error is raised
\* exactly when all three failed; prefer_vision (true in /analyze-image, false
\* elsewhere) changes nothing.
C3_SinglePass ==
  (~Idle /\ Called(trace, "get_model")) =>
    LET n == Len(attempts)
        avail == req.be.avail
    IN /\ Count("get_model") = 1
       /\ n \in 1..Len(FixedOrder)
       /\ attempts = SubSeq(FixedOrder, 1, n)
       /\ \A i \in 1..(n - 1) : ~avail[attempts[i]]
       /\ IF \E m \in ModelNames : avail[m]
            THEN /\ model = attempts[n]
                 /\ avail[model]
                 /\ ~(caught.raised /\ caught.err = NO_MODELS_FOUND)
            ELSE /\ model = NoModel
                 /\ n = Len(FixedOrder)
                 /\ ~At("/health") =>
                      caught = [raised |-> TRUE, err |-> NO_MODELS_FOUND]
                 /\ At("/health") =>
                      /\ ~resp.body.api_accessible
                      /\ resp.body.model_status
                           = API_ERROR_PREFIX \o NO_MODELS_FOUND

C3_Witness ==
  /\ At("/analyze-image")
  /\ req.be.avail["gemini-1.5-flash-latest"]
  /\ attempts = << "gemini-2.0-flash", "gemini-1.5-flash" >>
  /\ model = "gemini-1.5-flash"

\* the body an endpoint gives for one fixed failure (a body that cannot be
\* parsed; for /list-models a failing listing)
ReferenceFailure(endpoint) ==
  handle(endpoint, TRUE,
         [NoBody EXCEPT !.kind = "unparsable"],
         [Unasked EXCEPT !.listing = [kind |-> "raise", text |-> BE_INTERNAL,
                                      models |-> <<>>]])

FixedMessages == {MSG_CONNECTION, MSG_USAGE_LIMIT, MSG_CONFIGURATION, MSG_GENERIC}

Prev == ref[1]

\* the response that carries the model's text
Answer(endpoint, text) ==
  [status |-> 200,
   body |-> IF endpoint = "/webhook" THEN Fulfillment(text) ELSE [answer |-> text]]

\* the earlier request was a query the model answered, and the request just
\* handled is the same query to the same endpoint
SameQueryAgain ==
  /\ ref # <<>>
  /\ Prev.req.endpoint \in {"/ask", "/webhook"}
  /\ Prev.req.be.gen.kind = "text"
  /\ Prev.resp = Answer(Prev.req.endpoint, Prev.req.be.gen.text)
  /\ At(Prev.req.endpoint)
  /\ req.body = Prev.req.body

ReachesModelStep ==
  /\ API_KEY
  /\ \/ At("/health")
     \/ At("/ask") /\ req.body.kind = "object" /\ req.body.question.t = "str"
          /\ ~BlankQuestion(req.body)
     \/ At("/analyze-image") /\ req.body.kind = "object"
          /\ req.body.image = JStr(<<"/", "9", "j", "/">>)
     \/ At("/webhook") /\ req.body.kind = "object"
          /\ req.body.queryResult.t = "obj"
          /\ req.body.queryText = JStr(<<"h", "i">>)

\* C6: no model handle and no other state is carried from one request to the
\* next: a request that reaches the model step calls get_model, which starts
\* at the head of its list, and the handle is the one this call resolved;
\* generate_content is only called on it; the API-key configuration is the
\* one the earlier request ran under; and a request identical to an earlier
\* one (same endpoint, body and collaborators' replies) gets the identical
\* response, whatever was handled in between.
C6_NothingCarriedOver ==
  /\ ReachesModelStep => Called(trace, "get_model")
  /\ (~Idle /\ Called(trace, "get_model")) =>
       /\ Count("get_model") = 1
       /\ attempts # <<>>
       /\ attempts[1] = FixedOrder[1]
       /\ model = IF req.be.avail[attempts[Len(attempts)]]
                    THEN attempts[Len(attempts)] ELSE NoModel
  /\ (~Idle /\ Called(trace, "generate_content")) =>
       /\ Called(trace, "get_model")
       /\ Pos("get_model") < Pos("generate_content")
  /\ ref # <<>> => Prev.key = API_KEY
  /\ (ref # <<>> /\ ~Idle /\ Prev.req = req) => Prev.resp = resp

C6_Witness ==
  /\ ref # <<>>
  /\ At("/ask")
  /\ Prev.req = req
  /\ Prev.resp = resp
  /\ Called(trace, "get_model")
  /\ attempts = FixedOrder
  /\ model = "gemini-1.5-flash-latest"
  /\ resp.status = 200

\* C7 as stated: once the model has answered an /analyze-image request, the
\* response is 200 with the model's answer, and the statistic beside it is the
\* edge count and shape when the bytes decode and null when they do not.
C7_EdgeCountDecorative ==
  (At("/analyze-image") /\ Called(trace, "generate_content")
     /\ req.be.gen.kind = "text") =>
    /\ resp.status = 200
    /\ resp.body.answer = req.be.gen.text
    /\ resp.body.opencv_analysis =
         IF req.be.dec.kind = "image"
           THEN [edges_detected |-> req.be.dec.edges, image_shape |-> req.be.dec.shape]
           ELSE JsonNull

\* C8: every /webhook response has status 200 and a body of exactly the two
\* fields fulfillmentText and source, source being "kakapo-chatbot" and
\* fulfillmentText a text: the model's answer or one of the fixed messages.
C8_WebhookShape ==
  At("/webhook") =>
    /\ resp.status = 200
    /\ DOMAIN resp.body = {"fulfillmentText", "source"}
    /\ resp.body.source = SOURCE
    /\ resp.body.fulfillmentText \in
         FixedMessages \cup {WEBHOOK_NO_KEY, WEBHOOK_NO_QUERY}
           \cup {g.text : g \in {o \in GenOutcomes : o.kind = "text"}}

C8_Witness ==
  /\ At("/webhook")
  /\ caught.raised
  /\ Called(trace, "generate_content")
  /\ resp = [status |-> 200, body |-> Fulfillment(MSG_CONNECTION)]

\* C9: the message for an exception in /webhook is the first match of:
\* "404" or "not found" (as written) in the text -> connection; "quota" in
\* the lower-cased text -> usage limit; "api key" in the lower-cased text ->
\* configuration; otherwise generic.  The terminal error of get_model is
\* reported as the usage-limit message.
C9_MessagePriority ==
  (At("/webhook") /\ caught.raised) =>
    LET text == resp.body.fulfillmentText
        connection == Contains(SUB_404, caught.err) \/ Contains(SUB_NOT_FOUND, caught.err)
        quota == Contains(SUB_QUOTA, lower(caught.err))
        api_key == Contains(SUB_API_KEY, lower(caught.err))
    IN /\ connection => text = MSG_CONNECTION
       /\ (~connection /\ quota) => text = MSG_USAGE_LIMIT
       /\ (~connection /\ ~quota /\ api_key) => text = MSG_CONFIGURATION
       /\ (~connection /\ ~quota /\ ~api_key) => text = MSG_GENERIC
       /\ Cardinality({m \in FixedMessages : text = m}) = 1
       /\ caught.err = NO_MODELS_FOUND => text = MSG_USAGE_LIMIT
       /\ caught.err = BE_QUOTA_404 => text = MSG_CONNECTION
       /\ caught.err = BE_NOT_FOUND_CAP => text = MSG_GENERIC
       /\ caught.err = BE_API_KEY_QUOTA => text = MSG_USAGE_LIMIT
       /\ caught.err = BE_API_KEY => text = MSG_CONFIGURATION

C9_Witness ==
  /\ At("/webhook")
  /\ caught = [raised |-> TRUE, err |-> NO_MODELS_FOUND]
  /\ resp.body.fulfillmentText = MSG_USAGE_LIMIT

\* the request holds no input: the handler's empty-input check rejects it
EmptyInput ==
  \/ At("/ask") /\ BlankQuestion(req.body)
  \/ At("/analyze-image") /\ EmptyImage(req.body)
  \/ /\ At("/webhook")
     /\ req.body.kind = "object"
     /\ \/ req.body.queryResult = Absent
        \/ /\ req.body.queryResult.t = "obj"
           /\ req.body.queryText \in {Absent, JNull, JStr(<<>>)}

\* C10: in /ask, /analyze-image and /webhook the API-key check comes first,
\* then the input check, then get_model, then generate_content, each at most
\* once; a request rejected by the API-key check or by the empty-input check
\* gets no backend call; generate_content is only called after get_model
\* returned a model.
C10_CheckOrder ==
  (At("/ask") \/ At("/analyze-image") \/ At("/webhook")) =>
    /\ trace[1] = "api_key_check"
    /\ \A step \in {"api_key_check", "input_check", "get_model", "generate_content"} :
         Count(step) <= 1
    /\ Called(trace, "input_check") => API_KEY
    /\ Called(trace, "get_model") =>
         /\ Called(trace, "input_check")
         /\ Pos("input_check") < Pos("get_model")
    /\ Called(trace, "generate_content") =>
         /\ Called(trace, "get_model")
         /\ Pos("get_model") < Pos("generate_content")
         /\ model # NoModel
         /\ req.be.avail[model]
    /\ (\/ ~API_KEY
        \/ EmptyInput
        \/ resp.status = 400
        \/ resp.body = Fulfillment(WEBHOOK_NO_QUERY)) =>
         /\ ~Called(trace, "get_model")
         /\ ~Called(trace, "generate_content")
         /\ attempts = <<>>

C10_Witness ==
  /\ At("/analyze-image")
  /\ trace = << "api_key_check", "get_json", "input_check", "b64decode",
                "get_model", "generate_content", "imdecode" >>
  /\ resp.status = 200

============================================================================
